---- MODULE Spec2Model ----
(***************************************************************************)
(* GitSwitch: the flat-file account store (config.rs), the SSH client      *)
(* config block editor (ssh.rs) and the profile manager (commands.rs).     *)
(*                                                                         *)
(* Text is a sequence of atoms.  An atom is one character where the code   *)
(* looks at characters (letters of a name, ' ', '_', '|', '#', '\n') and   *)
(* one whitespace-free word where the code only ever compares a literal    *)
(* of a format string ("GitHub", "Host", "github-", ...).  A file is a     *)
(* record: whether it exists, and its bytes as one flat sequence of atoms. *)
(*                                                                         *)
(* Four specifications share the variables:                                *)
(*   SpecStore  load / append / delete on a store file of any content;     *)
(*   SpecSsh    append_block / remove_block on a config file of any        *)
(*              content;                                                   *)
(*   SpecCli    add / use / remove / list of the profile manager on a      *)
(*              fresh home directory;                                      *)
(*   SpecSteps  delete and remove_block one system call at a time, with    *)
(*              a second invocation that appends and a stop at any point.  *)
(* A read or a write of a file succeeds or fails (IoOutcomes); an external *)
(* command exits with 0, exits with another status or cannot be started    *)
(* (CmdOutcomes).  A behaviour explores one invocation in which something  *)
(* failed, as its last one.                                                *)
(***************************************************************************)
EXTENDS Integers, Sequences, FiniteSets, TLC

VARIABLES
    store,      \* the account store file, ~/.git-switch-accounts
    cfg,        \* the SSH client configuration file, ~/.ssh/config
    keyfiles,   \* the paths of the key files that exist
    loaded,     \* what the last load returned
    gitcfg,     \* user.name and user.email of the global git configuration
    agent,      \* the key paths ssh-add has registered
    out,        \* how the last invocation ended, what it said, what it ran
    proc,       \* the invocations of SpecSteps that are under way
    log         \* the operations so far, each with the files it found

vars == <<store, cfg, keyfiles, loaded, gitcfg, agent, out, proc, log>>

\* ---------------------------------------------------------------- bounds

\* most lines of a file that exists before the first operation
MaxLines == 3
\* most operations on a file that existed before the first operation
MaxEdits == 1
\* most operations of a behaviour that starts without any file
MaxOps == 3

\* ------------------------------------------------------------------ text

NL == "\n"
SP == " "
BAR == "|"
HASH == "#"

\* a file: whether it exists, and its bytes
File(d) == [exists |-> TRUE, data |-> d]

Absent == [exists |-> FALSE, data |-> <<>>]

\* the file f as a call sees it whose read of it fails
Unreadable(f) == [exists |-> TRUE, data |-> f.data, unreadable |-> TRUE]

\* fs::read_to_string(path) returns Err
ReadFails(f) == "unreadable" \in DOMAIN f

IsSpace(c) == c \in {SP, NL}

StartsWith(s, p) == Len(p) <= Len(s) /\ SubSeq(s, 1, Len(p)) = p

EndsWith(s, p) == Len(p) <= Len(s) /\ SubSeq(s, Len(s) - Len(p) + 1, Len(s)) = p

\* String::pop
Pop(s) == SubSeq(s, 1, Len(s) - 1)

RECURSIVE TrimStart(_)
TrimStart(s) == IF s # <<>> /\ IsSpace(Head(s)) THEN TrimStart(Tail(s)) ELSE s

RECURSIVE TrimEnd(_)
TrimEnd(s) == IF s # <<>> /\ IsSpace(s[Len(s)]) THEN TrimEnd(Pop(s)) ELSE s

\* str::trim
Trim(s) == TrimEnd(TrimStart(s))

\* position of the first atom c of s, 0 when there is none
RECURSIVE IndexOf(_, _, _)
IndexOf(s, c, i) ==
    IF i > Len(s) THEN 0
    ELSE IF s[i] = c THEN i
    ELSE IndexOf(s, c, i + 1)

\* str::split(c): always at least one part
RECURSIVE Split(_, _)
Split(s, c) ==
    LET i == IndexOf(s, c, 1) IN
    IF i = 0 THEN <<s>>
    ELSE <<SubSeq(s, 1, i - 1)>> \o Split(SubSeq(s, i + 1, Len(s)), c)

\* str::lines: split at '\n', no empty last line after a final '\n'
RECURSIVE Lines(_)
Lines(s) ==
    LET i == IndexOf(s, NL, 1) IN
    IF s = <<>> THEN <<>>
    ELSE IF i = 0 THEN <<s>>
    ELSE <<SubSeq(s, 1, i - 1)>> \o Lines(SubSeq(s, i + 1, Len(s)))

\* char::to_lowercase on the letters of the alphabet
ToLower(c) == CASE c = "A" -> "a" [] c = "B" -> "b" [] OTHER -> c

\* name.replace(' ', "_").to_lowercase()
host_alias_name(name) ==
    [i \in 1..Len(name) |-> ToLower(IF name[i] = SP THEN "_" ELSE name[i])]

RECURSIVE Flatten(_)
Flatten(ss) == IF ss = <<>> THEN <<>> ELSE Head(ss) \o Flatten(Tail(ss))

\* every sequence over S of at most n elements
SeqUpTo(S, n) == UNION {[1..k -> S] : k \in 0..n}

\* the lines ls, each but possibly the last ended by '\n'
FileOf(ls, finalNL) ==
    LET t == Flatten([i \in 1..Len(ls) |-> ls[i] \o <<NL>>]) IN
    IF finalNL \/ ls = <<>> THEN t ELSE Pop(t)

\* ------------------------------------------------------------- config.rs

Account(n, u, e, k) == [name |-> n, username |-> u, email |-> e, ssh_key |-> k]

\* the closure of filter_map: one line to zero or one account
ParseLine(line) ==
    LET trimmed_line == Trim(line)
        parts == Split(trimmed_line, BAR)
    IN  IF trimmed_line = <<>> THEN <<>>
        ELSE IF Len(parts) = 4
             THEN <<Account(Trim(parts[1]), Trim(parts[2]), Trim(parts[3]), Trim(parts[4]))>>
             ELSE <<>>

\* a faulty load: gives up at the first malformed line
RECURSIVE ParseUntilMalformed(_)
ParseUntilMalformed(ls) ==
    IF ls = <<>> THEN <<>>
    ELSE IF Trim(Head(ls)) # <<>> /\ ParseLine(Head(ls)) = <<>> THEN <<>>
    ELSE ParseLine(Head(ls)) \o ParseUntilMalformed(Tail(ls))

load_accounts_abort(f) == IF ~f.exists THEN <<>> ELSE ParseUntilMalformed(Lines(f.data))

load_accounts_from_path(f) ==
    IF ~f.exists THEN <<>>
    ELSE IF ReadFails(f) THEN <<>>
    ELSE LET ls == Lines(f.data) IN Flatten([i \in 1..Len(ls) |-> ParseLine(ls[i])])

\* format!("{}|{}|{}|{}\n", ...)
Entry(acc) ==
    acc.name \o <<BAR>> \o acc.username \o <<BAR>> \o acc.email \o <<BAR>> \o acc.ssh_key \o <<NL>>

\* a faulty append: the record is written at the start of the file
save_account_at_start(acc, f) == File(Entry(acc) \o f.data)

\* a faulty append: the record is written without its final newline
save_account_no_newline(acc, f) == File(f.data \o Pop(Entry(acc)))

\* OpenOptions append + create, write_all(entry)
save_account_to_path(acc, f) == File(f.data \o Entry(acc))

\* a faulty delete: only the first record of that name goes
RECURSIVE DropFirst(_, _)
DropFirst(accs, n) ==
    IF accs = <<>> THEN <<>>
    ELSE IF Head(accs).name = n THEN Tail(accs)
    ELSE <<Head(accs)>> \o DropFirst(Tail(accs), n)

delete_first_only(name_to_delete, f) ==
    LET upd == DropFirst(load_accounts_from_path(f), name_to_delete)
    IN  File(Flatten([i \in 1..Len(upd) |-> Entry(upd[i])]))

\* a faulty delete: the rewrite loses the last record
delete_drop_last(name_to_delete, f) ==
    LET upd == SelectSeq(load_accounts_from_path(f), LAMBDA acc : acc.name # name_to_delete)
    IN  File(Flatten([i \in 1..Len(upd) - 1 |-> Entry(upd[i])]))

\* load, filter, truncate + create, write every remaining record
delete_account_from_path(name_to_delete, f) ==
    LET accounts_before_delete == load_accounts_from_path(f)
        updated_accounts ==
            SelectSeq(accounts_before_delete, LAMBDA acc : acc.name # name_to_delete)
    IN  File(Flatten([i \in 1..Len(updated_accounts) |-> Entry(updated_accounts[i])]))

\* ---------------------------------------------------------------- ssh.rs

Indent == <<SP, SP, SP, SP>>

\* format!("# {} GitHub Account", name)
entry_header(name) == <<HASH, SP>> \o name \o <<SP, "GitHub", SP, "Account">>

\* format!("Host github-{}", name.replace(' ', "_").to_lowercase())
host_line(name) == <<"Host", SP, "github-">> \o host_alias_name(name)

\* the format! of update_ssh_config
config_entry(name, identity_file) ==
    <<NL>> \o entry_header(name) \o <<NL>>
    \o host_line(name) \o <<NL>>
    \o Indent \o <<"HostName", SP, "github.com", NL>>
    \o Indent \o <<"User", SP, "git", NL>>
    \o Indent \o <<"IdentityFile", SP>> \o identity_file \o <<NL>>

\* a faulty append: the alias keeps the letter case of the name
update_ssh_config_keep_case(name, identity_file, f) ==
    File(f.data \o <<NL>> \o entry_header(name) \o <<NL>>
         \o <<"Host", SP, "github-">> \o [i \in 1..Len(name) |-> IF name[i] = SP THEN "_" ELSE name[i]]
         \o <<NL>> \o Indent \o <<"HostName", SP, "github.com", NL>>
         \o Indent \o <<"User", SP, "git", NL>>
         \o Indent \o <<"IdentityFile", SP>> \o identity_file \o <<NL>>)

\* OpenOptions create + append, write_all(config_entry)
update_ssh_config(name, identity_file, f) ==
    File(f.data \o config_entry(name, identity_file))

\* a faulty test: the lines are compared as they are, white space included
HeaderAt_untrimmed(lines, i, name) ==
    /\ lines[i] = entry_header(name)
    /\ i + 1 <= Len(lines)
    /\ StartsWith(lines[i + 1], host_line(name))

\* a faulty test: the header line alone opens a block
HeaderAt_header_only(lines, i, name) == Trim(lines[i]) = entry_header(name)

\* the test of lines 124-128: this line is the header and the next one the Host line
HeaderAt(lines, i, name) ==
    /\ Trim(lines[i]) = entry_header(name)
    /\ i + 1 <= Len(lines)
    /\ StartsWith(Trim(lines[i + 1]), host_line(name))

\* the while loop of remove_ssh_config_entry, from line i on
RECURSIVE ScanLines(_, _, _, _, _)
ScanLines(lines, i, skip_block, new_content, name) ==
    IF i > Len(lines) THEN new_content
    ELSE LET line == lines[i]
             pushed == new_content \o line \o <<NL>>
         IN  IF HeaderAt(lines, i, name)
             THEN \* the header is consumed, then lines.next() three times, then continue
                  ScanLines(lines, i + 4, TRUE, new_content, name)
             ELSE IF ~skip_block
             THEN ScanLines(lines, i + 1, FALSE, pushed, name)
             ELSE IF Trim(line) # <<>> /\ ~StartsWith(Trim(line), <<HASH>>)
             THEN ScanLines(lines, i + 1, FALSE, pushed, name)
             ELSE IF ~HeaderAt(lines, i, name)
             THEN ScanLines(lines, i + 1, FALSE, pushed, name)
             ELSE ScanLines(lines, i + 1, FALSE, new_content, name)

\* while new_content.ends_with("\n\n\n") { new_content.pop(); }
RECURSIVE PopTripleNewlines(_)
PopTripleNewlines(s) ==
    IF EndsWith(s, <<NL, NL, NL>>) THEN PopTripleNewlines(Pop(s)) ELSE s

\* lines 165-181: the clean-up of the end of the buffer
CleanUp(scanned, file_content) ==
    LET c1 == PopTripleNewlines(scanned)
        c2 == IF EndsWith(c1, <<NL, NL>>) /\ Trim(c1) = <<>> THEN <<>>
              ELSE IF EndsWith(c1, <<NL, NL>>) THEN Pop(c1)
              ELSE c1
    IN  IF c2 = <<NL>> /\ Len(Lines(file_content)) > 1 THEN c2
        ELSE IF Trim(c2) = <<>> /\ Trim(file_content) # <<>> THEN <<>>
        ELSE c2

\* no file: nothing happens; a read that fails: nothing is written; else
\* read, scan, clean up, truncate and write
remove_ssh_config_entry(name, f) ==
    IF ~f.exists THEN f
    ELSE IF ReadFails(f) THEN File(f.data)
    ELSE LET file_content == f.data
             scanned == ScanLines(Lines(file_content), 1, FALSE, <<>>, name)
         IN  File(CleanUp(scanned, file_content))

\* ----------------------------------------------------------- commands.rs

\* format!("~/.ssh/id_rsa_{}", name.replace(' ', "_").to_lowercase())
ssh_key_path(name) == <<"~/.ssh/id_rsa_">> \o host_alias_name(name)

\* format!("{}.pub", base_path_str)
public_key_path(base) == base \o <<".pub">>

\* accounts.iter().find(|acc| acc.name == name)
FindByName(accounts, name) ==
    LET hits == SelectSeq(accounts, LAMBDA acc : acc.name = name)
    IN  IF hits = <<>> THEN <<>> ELSE <<Head(hits)>>

\* ---------------------------------------------------------------- inputs

NameA == <<"a">>
NameUpperA == <<"A">>
NameAB == <<"A", SP, "b">>
NameA_B == <<"a", "_", "b">>

\* the names a user passes
Names == {NameA, NameUpperA, NameAB, NameA_B}

\* the identity file paths given to update_ssh_config
Keys == {<<"~/.ssh/", "k", "1">>, <<"~/.ssh/", "k", "2">>}

\* the second username is also the name of a profile
Users == {<<"u">>, NameA}
Emails == {<<"e", "@", "x">>}

\* the accounts given to save_account_to_path; one has a username that
\* begins with a blank, one an email that holds the delimiter
Accounts ==
    {Account(NameA, <<"u">>, <<"e", "@", "x">>, ssh_key_path(NameA)),
     Account(NameUpperA, <<"v">>, <<"e", "@", "x">>, ssh_key_path(NameUpperA)),
     Account(NameAB, <<SP, "v">>, <<"e", "@", "x">>, ssh_key_path(NameAB)),
     Account(NameA_B, <<"u">>, <<"e", BAR, "x">>, ssh_key_path(NameA_B))}

\* the lines a store file may hold before the first operation: records,
\* a record with blanks around its fields, a line of three fields, one of
\* five, an empty line
StoreLinePool ==
    {<<"a", BAR, "u", BAR, "e", BAR, "k">>,
     <<"A", BAR, "v", BAR, "e", BAR, "k">>,
     <<SP, "a", SP, BAR, SP, "w", BAR, "e", BAR, "k", SP>>,
     <<"a", BAR, "u", BAR, "e">>,
     <<"a", BAR, "u", BAR, "e", BAR, "k", BAR, "x">>,
     <<>>}

\* the lines an SSH config may hold before the first operation: the two
\* lines that open the block of "a", the header with blanks around it, a
\* Host line and a comment of someone else, an empty line
ConfigLinePool ==
    {entry_header(NameA),
     host_line(NameA),
     <<SP>> \o entry_header(NameA) \o <<SP>>,
     <<"Host", SP, "other">>,
     <<HASH, SP, "note">>,
     <<>>}

\* the files of at most MaxLines lines of the pool, with and without the
\* final newline
FilesOver(pool) ==
    {File(FileOf(ls, nl)) : ls \in SeqUpTo(pool, MaxLines), nl \in BOOLEAN}

\* config files a user left with a stray comment line of "a" above the
\* block of "a", and a Host line of "a" three lines below the block's own
StackedHeaderFiles ==
    {File(FileOf(<<entry_header(NameA), entry_header(NameA), host_line(NameA),
                   x, y, host_line(NameA)>>, nl)) :
        x \in {<<HASH, SP, "note">>, <<>>}, y \in {<<HASH, SP, "note">>}, nl \in BOOLEAN}

\* ------------------------------------------------------------------ log

NoAccount == Account(<<>>, <<>>, <<>>, <<>>)

\* one operation: what it was called with, the files it found, how it ended
Op(o, n, a, k, r) ==
    [op |-> o, name |-> n, acc |-> a, key |-> k, result |-> r,
     store0 |-> store, cfg0 |-> cfg, keyfiles0 |-> keyfiles,
     gitcfg0 |-> gitcfg, agent0 |-> agent]

Store0 == IF log = <<>> THEN store ELSE log[1].store0
Cfg0 == IF log = <<>> THEN cfg ELSE log[1].cfg0

\* a behaviour that found content in a file makes MaxEdits operations, one
\* that found none makes MaxOps
Budget == IF Store0.data # <<>> \/ Cfg0.data # <<>> THEN MaxEdits ELSE MaxOps

Last == log[Len(log)]

\* the operation that ended otherwise than "ok" is the last of a behaviour
CanStep == Len(log) < Budget /\ (IF log = <<>> THEN TRUE ELSE Last.result = "ok")

\* use may also follow an add that stored the account although ssh-keygen
\* failed: the account is then in the store without a key file
AfterFailedKeygen ==
    /\ Len(log) < Budget
    /\ log # <<>>
    /\ Last.op = "add" /\ Last.result = "keygen_failed"
    /\ out.did = <<<<"ssh-keygen", "fail">>, <<"save_account", "ok">>,
                   <<"update_ssh_config", "ok">>>>

\* how a read or a write of a file ends
IoOutcomes == {"ok", "err"}

\* a file that does not exist is not read
ReadOutcomes(f) == IF f.exists THEN IoOutcomes ELSE {"ok"}

\* the file as the call sees it
View(f, rd) == IF rd = "err" THEN Unreadable(f) ELSE f

\* how an invocation ended (ret), the messages it printed (said), the
\* calls and external commands it made, in order, each with how it ended
\* (did)
Out(r, s, d) == [ret |-> r, said |-> s, did |-> d]

NoOut == Out("ok", {}, <<>>)

NoGit == [user |-> <<>>, email |-> <<>>]

\* no invocation of SpecSteps is under way: where the invocation is (pc),
\* what it is (op, name), the buffers it has yet to write (todo), the
\* offset of its file handle (pos), what the other invocation appended
\* and where this one was then (appended, at)
Idle == [pc |-> "idle", op |-> "none", name |-> <<>>, todo |-> <<>>, pos |-> 0,
         appended |-> NoAccount, at |-> "never"]

\* the identity someone set with git config before
OtherGit == [user |-> <<"w">>, email |-> <<"w", "@", "x">>]

InitRest ==
    /\ gitcfg = NoGit
    /\ agent = {}
    /\ out = NoOut
    /\ proc = Idle

\* --------------------------------------------------- the account store

InitStore ==
    /\ store \in {Absent} \cup FilesOver(StoreLinePool)
    /\ cfg = Absent
    /\ keyfiles = {}
    /\ loaded = <<>>
    /\ log = <<>>
    /\ InitRest

\* load(path)
StoreLoad ==
    /\ CanStep
    /\ \E rd \in ReadOutcomes(store) :
        /\ loaded' = load_accounts_from_path(View(store, rd))
        /\ out' = Out("ok", IF rd = "ok" THEN {} ELSE {"Error reading config file"}, <<>>)
        /\ log' = Append(log, Op("load", <<>>, NoAccount, <<>>,
                                 IF rd = "ok" THEN "ok" ELSE "read_err"))
    /\ UNCHANGED <<store, cfg, keyfiles, gitcfg, agent, proc>>

\* append(path, account)
StoreAppend ==
    /\ CanStep
    /\ \E acc \in Accounts :
        \E wr \in IoOutcomes :
        /\ store' = IF wr = "ok" THEN save_account_to_path(acc, store) ELSE store
        /\ out' = Out(wr, {}, <<>>)
        /\ log' = Append(log, Op("append", acc.name, acc, <<>>,
                                 IF wr = "ok" THEN "ok" ELSE "write_err"))
    /\ UNCHANGED <<cfg, keyfiles, loaded, gitcfg, agent, proc>>

\* delete(path, name)
StoreDelete ==
    /\ CanStep
    /\ \E n \in Names :
        \E rd \in ReadOutcomes(store), wr \in IoOutcomes :
        /\ store' = IF wr = "ok" THEN delete_account_from_path(n, View(store, rd))
                     ELSE store
        /\ out' = Out(wr, IF rd = "ok" THEN {} ELSE {"Error reading config file"}, <<>>)
        /\ log' = Append(log, Op("delete", n, NoAccount, <<>>,
                                 IF wr = "err" THEN "write_err"
                                 ELSE IF rd = "err" THEN "read_err" ELSE "ok"))
    /\ UNCHANGED <<cfg, keyfiles, loaded, gitcfg, agent, proc>>

NextStore == StoreLoad \/ StoreAppend \/ StoreDelete

SpecStore == InitStore /\ [][NextStore]_vars

\* ------------------------------------------------ the SSH config editor

InitSsh ==
    /\ store = Absent
    /\ cfg \in {Absent} \cup FilesOver(ConfigLinePool) \cup StackedHeaderFiles
    /\ keyfiles = {}
    /\ loaded = <<>>
    /\ log = <<>>
    /\ InitRest

\* append_block(path, display_name, identity_file)
AppendBlock ==
    /\ CanStep
    /\ \E n \in Names, k \in Keys :
        \E wr \in IoOutcomes :
        /\ cfg' = IF wr = "ok" THEN update_ssh_config(n, k, cfg) ELSE cfg
        /\ out' = Out(wr, {}, <<>>)
        /\ log' = Append(log, Op("append_block", n, NoAccount, k,
                                 IF wr = "ok" THEN "ok" ELSE "write_err"))
    /\ UNCHANGED <<store, keyfiles, loaded, gitcfg, agent, proc>>

\* how remove_ssh_config_entry ends: without a file there is no I/O; else
\* the read fails, or the open for writing or the write fails, or neither
RemoveBlockOutcomes(f) == IF f.exists THEN {"ok", "read_err", "write_err"} ELSE {"ok"}

\* remove_block(path, display_name)
RemoveBlock ==
    /\ CanStep
    /\ \E n \in Names :
        \E io \in RemoveBlockOutcomes(cfg) :
        /\ cfg' = IF io = "write_err" THEN cfg
                   ELSE remove_ssh_config_entry(n, View(cfg, IF io = "ok" THEN "ok" ELSE "err"))
        /\ out' = Out(IF io = "ok" THEN "ok" ELSE "err", {}, <<>>)
        /\ log' = Append(log, Op("remove_block", n, NoAccount, <<>>, io))
    /\ UNCHANGED <<store, keyfiles, loaded, gitcfg, agent, proc>>

NextSsh == AppendBlock \/ RemoveBlock

SpecSsh == InitSsh /\ [][NextSsh]_vars

\* --------------------------------------------------- the profile manager

\* how running ssh-keygen ends: it exits with 0 and the two key files
\* exist, it exits with another status, or it cannot be started and
\* run_command ends the process
KeygenOutcomes == {"ok", "fail", "nostart"}

\* how running git, ssh-agent or ssh-add ends, likewise
CmdOutcomes == {"ok", "fail", "nostart"}

\* the external commands
Commands ==
    {"ssh-keygen", "git config user.name", "git config user.email",
     "ssh-agent", "ssh-add"}

\* what the user passes to use: a name or a username
Identifiers == Names \cup Users

\* a faulty search: the name alone is compared, then the first account is taken
FindByNameOrFirst(accounts, id) ==
    LET hits == SelectSeq(accounts, LAMBDA acc : acc.name = id)
    IN  IF hits # <<>> THEN <<Head(hits)>>
        ELSE IF accounts # <<>> THEN <<Head(accounts)>> ELSE <<>>

\* accounts.iter().find(|acc| acc.name == id || acc.username == id)
FindByNameOrUsername(accounts, id) ==
    LET hits == SelectSeq(accounts, LAMBDA acc : acc.name = id \/ acc.username = id)
    IN  IF hits = <<>> THEN <<>> ELSE <<Head(hits)>>

\* how delete_account ends: the read inside it fails and it writes what
\* load returned, or the open or a write fails, or neither
DeleteOutcomes == {"ok", "read_err", "write_err"}

\* how delete_ssh_key_files ends: remove_file fails on the private key, on
\* the public key, or on neither; a file that does not exist is not removed
KeyOutcomes(base, files) ==
    {"ok"} \cup (IF base \in files THEN {"private_err"} ELSE {})
           \cup (IF public_key_path(base) \in files THEN {"public_err"} ELSE {})

\* a faulty deletion: the public key file is never removed
delete_private_key_only(base, files, how) ==
    IF how = "private_err" THEN files ELSE files \ {base}

\* the key files left: the ? after the first remove_file skips the second
delete_ssh_key_files(base, files, how) ==
    IF how = "private_err" THEN files
    ELSE IF how = "public_err" THEN files \ {base}
    ELSE files \ {base, public_key_path(base)}

\* a faulty registration: it reports success whatever happened
add_ssh_key_always(key_path, files, how) == TRUE

\* add_ssh_key: false when the key file does not exist, else what ssh-add
\* returned
add_ssh_key(key_path, files, how) == key_path \in files /\ how = "ok"

InitCli ==
    /\ store = Absent
    /\ cfg \in {Absent, File(<<>>)}
    /\ keyfiles = {}
    /\ loaded = <<>>
    /\ log = <<>>
    /\ gitcfg \in {NoGit, OtherGit}
    /\ agent = {}
    /\ out = NoOut
    /\ proc = Idle

\* add(name, username, email): create ~/.ssh, generate_ssh_key,
\* save_account, update_ssh_config, display_public_key
AddAccount ==
    /\ CanStep
    /\ \E n \in Names, u \in Users, e \in Emails :
        LET path == ssh_key_path(n)
            account == Account(n, u, e, path)
            ran == path \notin keyfiles
        IN  \* the directory is created only when it does not exist
            \E dir \in (IF ~cfg.exists /\ keyfiles = {} THEN IoOutcomes ELSE {"ok"}) :
            IF dir = "err"
            THEN /\ UNCHANGED <<store, cfg, keyfiles>>
                 /\ out' = Out("panic", {"Failed to create SSH directory"},
                               <<<<"create_dir_all", "err">>>>)
                 /\ log' = Append(log, Op("add", n, account, path, "panic"))
            ELSE
            \* ssh-keygen runs only when the key file does not exist
            \E kg \in (IF ran THEN KeygenOutcomes ELSE {"ok"}) :
            LET keygen == IF ran THEN <<<<"ssh-keygen", kg>>>> ELSE <<>>
                files == IF ran /\ kg = "ok"
                         THEN keyfiles \cup {path, public_key_path(path)}
                         ELSE keyfiles
            IN  IF ran /\ kg = "nostart"
                THEN /\ UNCHANGED <<store, cfg, keyfiles>>
                     /\ out' = Out("exit", {"Failed to execute command"}, keygen)
                     /\ log' = Append(log, Op("add", n, account, path, "exit"))
                ELSE \E ws \in IoOutcomes, wc \in IoOutcomes :
                    /\ keyfiles' = files
                    /\ store' = IF ws = "ok" THEN save_account_to_path(account, store)
                                ELSE store
                    /\ cfg' = IF wc = "ok" THEN update_ssh_config(n, path, cfg) ELSE cfg
                    /\ out' = Out("ok",
                                  {"added successfully"}
                                  \cup (IF ran /\ kg = "fail" THEN {"Error running"} ELSE {})
                                  \cup (IF ws = "err" THEN {"Failed to save account"} ELSE {})
                                  \cup (IF wc = "err" THEN {"Failed to update SSH config"} ELSE {})
                                  \cup (IF public_key_path(path) \notin files
                                        THEN {"Public key file not found"} ELSE {}),
                                  keygen \o <<<<"save_account", ws>>,
                                              <<"update_ssh_config", wc>>>>)
                    /\ log' = Append(log, Op("add", n, account, path,
                                             IF ran /\ kg = "fail" THEN "keygen_failed"
                                             ELSE IF ws = "err" \/ wc = "err" THEN "io_err"
                                             ELSE "ok"))
    /\ UNCHANGED <<loaded, gitcfg, agent, proc>>

\* use(identifier): load_accounts, find, git config twice, ssh-agent,
\* add_ssh_key, the question about the remote.  update_git_remote works on
\* the repository of the current directory, which is not part of the state.
UseAccount ==
    /\ CanStep \/ AfterFailedKeygen
    /\ \E rd \in ReadOutcomes(store) :
      \E accounts \in {load_accounts_from_path(View(store, rd))} :
      \E id \in Identifiers :
      \E account \in {FindByNameOrUsername(accounts, id)} :
        LET read_said == IF rd = "err" THEN {"Error reading config file"} ELSE {}
        IN  IF account = <<>>
            THEN /\ UNCHANGED <<gitcfg, agent>>
                 /\ out' = Out("ok",
                               read_said \cup {"not found"}
                               \cup (IF accounts # <<>> THEN {"Available accounts"} ELSE {}),
                               <<>>)
                 /\ log' = Append(log, Op("use", id, NoAccount, <<>>, "not_found"))
            ELSE \E g1 \in CmdOutcomes :
                 LET acc == account[1]
                     d1 == <<<<"git config user.name", g1>>>>
                 IN
                 IF g1 = "nostart"
                 THEN /\ UNCHANGED <<gitcfg, agent>>
                      /\ out' = Out("exit", read_said \cup {"Failed to execute command"}, d1)
                      /\ log' = Append(log, Op("use", id, acc, acc.ssh_key, "exit"))
                 ELSE
                 \E g2 \in CmdOutcomes :
                 LET name_set == [gitcfg EXCEPT !.user = IF g1 = "ok" THEN acc.username ELSE @]
                     both_set == [name_set EXCEPT !.email = IF g2 = "ok" THEN acc.email ELSE @]
                     d2 == d1 \o <<<<"git config user.email", g2>>>>
                     has_key == acc.ssh_key \in keyfiles
                 IN  IF g2 = "nostart"
                     THEN /\ gitcfg' = name_set
                          /\ UNCHANGED agent
                          /\ out' = Out("exit", read_said \cup {"Failed to execute command"}, d2)
                          /\ log' = Append(log, Op("use", id, acc, acc.ssh_key, "exit"))
                     ELSE
                     \* ssh-add runs only when the key file exists; the
                     \* question is asked only when ssh-add succeeded
                     \E ag \in CmdOutcomes, sa \in (IF has_key THEN CmdOutcomes ELSE {"fail"}) :
                     \E answer \in (IF has_key /\ sa = "ok" THEN {"y", "n"} ELSE {"n"}) :
                     LET d3 == d2 \o <<<<"ssh-agent", ag>>>>
                         d4 == IF has_key THEN d3 \o <<<<"ssh-add", sa>>>> ELSE d3
                         added == add_ssh_key(acc.ssh_key, keyfiles, sa)
                     IN
                     IF has_key /\ sa = "nostart"
                     THEN /\ gitcfg' = both_set
                          /\ UNCHANGED agent
                          /\ out' = Out("exit", read_said \cup {"Failed to execute command"}, d4)
                          /\ log' = Append(log, Op("use", id, acc, acc.ssh_key, "exit"))
                     ELSE /\ gitcfg' = both_set
                          /\ agent' = IF added THEN agent \cup {acc.ssh_key} ELSE agent
                          /\ out' = Out("ok",
                                        read_said
                                        \cup (IF g1 = "fail" \/ g2 = "fail" \/ (has_key /\ sa = "fail")
                                              THEN {"Error running"} ELSE {})
                                        \cup (IF ag = "ok" THEN {"ssh-agent command executed"}
                                              ELSE IF ag = "fail" THEN {"Failed to start ssh-agent"}
                                              ELSE {"Failed to execute ssh-agent"})
                                        \cup (IF ~has_key THEN {"SSH key not found"} ELSE {})
                                        \cup (IF added THEN {"Switched to Git account"}
                                              ELSE {"Failed to add SSH key to agent"}),
                                        IF added /\ answer = "y"
                                        THEN d4 \o <<<<"update_git_remote", "ok">>>> ELSE d4)
                          /\ log' = Append(log, Op("use", id, acc, acc.ssh_key,
                                                   IF added THEN "switched" ELSE "not_switched"))
    /\ UNCHANGED <<store, cfg, keyfiles, loaded, proc>>

\* remove(name): load_accounts, find, delete_account,
\* remove_ssh_config_entry, delete_ssh_key_files
RemoveAccount ==
    /\ CanStep
    /\ \E rd \in ReadOutcomes(store) :
      \E accounts \in {load_accounts_from_path(View(store, rd))} :
      \E n \in Names :
      \E account_to_delete \in {FindByName(accounts, n)} :
        LET read_said == IF rd = "err" THEN {"Error reading config file"} ELSE {}
        IN  IF account_to_delete = <<>>
            THEN /\ UNCHANGED <<store, cfg, keyfiles>>
                 /\ out' = Out("ok", read_said \cup {"not found"}, <<>>)
                 /\ log' = Append(log, Op("remove", n, NoAccount, <<>>, "not_found"))
            ELSE LET account == account_to_delete[1] IN
                 \E del \in DeleteOutcomes :
                 \E store_after \in
                        {IF del = "write_err" THEN store
                         ELSE delete_account_from_path(
                                  n, View(store, IF del = "ok" THEN "ok" ELSE "err"))} :
                 \E cio \in RemoveBlockOutcomes(cfg) :
                 \E cfg_after \in
                        {IF cio = "write_err" THEN cfg
                         ELSE remove_ssh_config_entry(
                                  n, View(cfg, IF cio = "ok" THEN "ok" ELSE "err"))} :
                 \E kio \in KeyOutcomes(account.ssh_key, keyfiles) :
                 /\ store' = store_after
                 /\ cfg' = cfg_after
                 /\ keyfiles' = delete_ssh_key_files(account.ssh_key, keyfiles, kio)
                 /\ out' = Out("ok",
                               {"have been removed"}
                               \cup (IF del = "read_err" THEN {"Error reading config file"} ELSE {})
                               \cup (IF del = "write_err"
                                     THEN {"Failed to remove account from config"} ELSE {})
                               \cup (IF cio # "ok"
                                     THEN {"Failed to remove SSH config entry"} ELSE {})
                               \cup (IF kio # "ok"
                                     THEN {"Failed to delete SSH key files"} ELSE {}),
                               <<<<"delete_account", IF del = "write_err" THEN "err" ELSE "ok">>,
                                 <<"remove_ssh_config_entry", IF cio = "ok" THEN "ok" ELSE "err">>,
                                 <<"delete_ssh_key_files", IF kio = "ok" THEN "ok" ELSE "err">>>>)
                 /\ log' = Append(log, Op("remove", n, account, account.ssh_key,
                                          IF del = "ok" /\ cio = "ok" /\ kio = "ok"
                                          THEN "ok" ELSE "io_err"))
    /\ UNCHANGED <<loaded, gitcfg, agent, proc>>

\* list: load_accounts, then the table or "No saved accounts."
ListAccounts ==
    /\ CanStep
    /\ \E rd \in ReadOutcomes(store) :
      \E accounts \in {load_accounts_from_path(View(store, rd))} :
        /\ loaded' = accounts
        /\ out' = Out("ok",
                      (IF rd = "err" THEN {"Error reading config file"} ELSE {})
                      \cup (IF accounts = <<>> THEN {"No saved accounts."}
                            ELSE {"Saved Git Accounts"}),
                      <<>>)
        /\ log' = Append(log, Op("list", <<>>, NoAccount, <<>>,
                                 IF rd = "ok" THEN "listed" ELSE "read_err"))
    /\ UNCHANGED <<store, cfg, keyfiles, gitcfg, agent, proc>>

NextCli == AddAccount \/ UseAccount \/ RemoveAccount \/ ListAccounts

SpecCli == InitCli /\ [][NextCli]_vars

\* ------------------------------------- one system call at a time

\* the store files that appends of at most MaxLines accounts produce
StoresBuilt ==
    {File(Flatten([i \in 1..Len(accs) |-> Entry(accs[i])])) :
        accs \in SeqUpTo(Accounts, MaxLines)}

\* reads and writes succeed here; what is explored is where the
\* invocation stops and where another invocation appends
InitSteps ==
    /\ \/ store \in {Absent} \cup StoresBuilt /\ cfg = Absent
       \/ store = Absent /\ cfg \in FilesOver(ConfigLinePool)
    /\ keyfiles = {}
    /\ loaded = <<>>
    /\ log = <<>>
    /\ InitRest

\* a faulty open: the file is not truncated
open_keep(f) == File(f.data)

\* OpenOptions::new().write(true).truncate(true).open(path)
open_truncate(f) == File(<<>>)

\* write_all(chunk) through a handle at offset pos of a file opened without
\* append: the bytes from pos on are overwritten (offsets count atoms)
write_at(f, pos, chunk) ==
    File(SubSeq(f.data, 1, pos) \o chunk
         \o SubSeq(f.data, pos + Len(chunk) + 1, Len(f.data)))

\* delete_account_from_path up to the open: the records to keep are in
\* memory, one buffer for each
DeleteBegin ==
    /\ proc.pc = "idle"
    /\ \E n \in Names :
        LET accounts_before_delete == load_accounts_from_path(store)
            updated_accounts ==
                SelectSeq(accounts_before_delete, LAMBDA acc : acc.name # n)
        IN  /\ proc' = [proc EXCEPT !.pc = "loaded", !.op = "delete", !.name = n,
                                    !.todo = [i \in 1..Len(updated_accounts) |->
                                                 Entry(updated_accounts[i])]]
            /\ log' = Append(log, Op("delete", n, NoAccount, <<>>, "begun"))
    /\ UNCHANGED <<store, cfg, keyfiles, loaded, gitcfg, agent, out>>

\* remove_ssh_config_entry up to the open: the new content is in memory,
\* in one buffer; without a file it returns at once
RemoveBlockBegin ==
    /\ proc.pc = "idle"
    /\ \E n \in Names :
        /\ proc' = IF ~cfg.exists
                    THEN [proc EXCEPT !.pc = "done", !.op = "remove_block", !.name = n]
                    ELSE [proc EXCEPT !.pc = "loaded", !.op = "remove_block", !.name = n,
                                      !.todo = <<remove_ssh_config_entry(n, cfg).data>>]
        /\ log' = Append(log, Op("remove_block", n, NoAccount, <<>>, "begun"))
    /\ UNCHANGED <<store, cfg, keyfiles, loaded, gitcfg, agent, out>>

\* the open with truncate (and, for the store, create)
EditOpen ==
    /\ proc.pc = "loaded"
    /\ IF proc.op = "delete"
       THEN store' = open_truncate(store) /\ UNCHANGED cfg
       ELSE cfg' = open_truncate(cfg) /\ UNCHANGED store
    /\ proc' = [proc EXCEPT !.pc = "opened", !.pos = 0]
    /\ UNCHANGED <<keyfiles, loaded, gitcfg, agent, out, log>>

\* one write_all: a record of the store, or the whole new config
EditWrite ==
    /\ proc.pc = "opened"
    /\ proc.todo # <<>>
    /\ IF proc.op = "delete"
       THEN store' = write_at(store, proc.pos, Head(proc.todo)) /\ UNCHANGED cfg
       ELSE cfg' = write_at(cfg, proc.pos, Head(proc.todo)) /\ UNCHANGED store
    /\ proc' = [proc EXCEPT !.todo = Tail(@), !.pos = @ + Len(Head(proc.todo))]
    /\ UNCHANGED <<keyfiles, loaded, gitcfg, agent, out, log>>

\* everything is written: Ok(())
EditReturn ==
    /\ proc.pc = "opened"
    /\ proc.todo = <<>>
    /\ proc' = [proc EXCEPT !.pc = "done"]
    /\ out' = Out("ok", {}, <<>>)
    /\ UNCHANGED <<store, cfg, keyfiles, loaded, gitcfg, agent, log>>

\* the process stops between two system calls
Stop ==
    /\ proc.pc \in {"loaded", "opened"}
    /\ proc' = [proc EXCEPT !.pc = "stopped"]
    /\ UNCHANGED <<store, cfg, keyfiles, loaded, gitcfg, agent, out, log>>

\* another invocation appends a record while the delete is under way:
\* save_account_to_path, whose write goes to the end of the file
OtherAppend ==
    /\ proc.op = "delete"
    /\ proc.pc \in {"loaded", "opened"}
    /\ proc.appended = NoAccount
    /\ \E acc \in Accounts :
        /\ store' = save_account_to_path(acc, store)
        /\ proc' = [proc EXCEPT !.appended = acc, !.at = proc.pc]
    /\ UNCHANGED <<cfg, keyfiles, loaded, gitcfg, agent, out, log>>

NextSteps ==
    \/ DeleteBegin
    \/ RemoveBlockBegin
    \/ EditOpen
    \/ EditWrite
    \/ EditReturn
    \/ Stop
    \/ OtherAppend

SpecSteps == InitSteps /\ [][NextSteps]_vars

\* ------------------------------------------------- what the claims use

Prev == log[Len(log) - 1]

\* the lines that are not empty once trimmed
NonBlank(ls) == SelectSeq(ls, LAMBDA l : Trim(l) # <<>>)

\* a is b with some elements left out
RECURSIVE IsSubseq(_, _)
IsSubseq(a, b) ==
    IF a = <<>> THEN TRUE
    ELSE IF b = <<>> THEN FALSE
    ELSE IF Head(a) = Head(b) THEN IsSubseq(Tail(a), Tail(b))
    ELSE IsSubseq(a, Tail(b))

\* the five lines of the block of a profile, as section 3 of the
\* specification shows them
BlockLines(hdr, alias, identity_file) ==
    <<hdr,
      <<"Host", SP, "github-">> \o alias,
      Indent \o <<"HostName", SP, "github.com">>,
      Indent \o <<"User", SP, "git">>,
      Indent \o <<"IdentityFile", SP>> \o identity_file>>

\* the alias of each name, written out
ExpectedAlias(n) ==
    CASE n = NameA -> <<"a">>
      [] n = NameUpperA -> <<"a">>
      [] n = NameAB -> <<"a", "_", "b">>
      [] n = NameA_B -> <<"a", "_", "b">>

ExpectedBlock(n, k) ==
    BlockLines(<<HASH, SP>> \o n \o <<SP, "GitHub", SP, "Account">>, ExpectedAlias(n), k)

\* line i opens a block of the profile: the comment, then the Host line
OpensBlock(ls, i, n) ==
    /\ i + 1 <= Len(ls)
    /\ Trim(ls[i]) = <<HASH, SP>> \o n \o <<SP, "GitHub", SP, "Account">>
    /\ StartsWith(Trim(ls[i + 1]), <<"Host", SP, "github-">> \o ExpectedAlias(n))

\* line j belongs to a block of the profile: it is the comment or the Host
\* line of one, or the HostName, User or IdentityFile line that follows in
\* its place
OwnedLine(ls, j, n) ==
    \E i \in 1..Len(ls) :
        /\ OpensBlock(ls, i, n)
        /\ \/ j \in {i, i + 1}
           \/ j = i + 2 /\ Trim(ls[j]) = <<"HostName", SP, "github.com">>
           \/ /\ j = i + 3
              /\ Trim(ls[i + 2]) = <<"HostName", SP, "github.com">>
              /\ Trim(ls[j]) = <<"User", SP, "git">>
           \/ /\ j = i + 4
              /\ Trim(ls[i + 2]) = <<"HostName", SP, "github.com">>
              /\ Trim(ls[i + 3]) = <<"User", SP, "git">>
              /\ StartsWith(Trim(ls[j]), <<"IdentityFile", SP>>)

\* the lines of ls at the positions of the set keep, in order
RECURSIVE Keep(_, _, _)
Keep(ls, i, keep) ==
    IF i > Len(ls) THEN <<>>
    ELSE (IF i \in keep THEN <<ls[i]>> ELSE <<>>) \o Keep(ls, i + 1, keep)

\* ------------------------------------------------------------- claims

\* C1: append_block(p, name, key) followed by remove_block(p, name) leaves
\* the config file with exactly the content it had before the append.
C1_BlockRoundTrip ==
    (/\ Len(log) >= 2
     /\ Last.op = "remove_block" /\ Last.result = "ok"
     /\ Prev.op = "append_block"
     /\ Last.name = Prev.name)
    => cfg.data = Prev.cfg0.data

\* C2: when the config file holds the block of one profile and then the
\* block of another with another alias, remove_block for the first leaves,
\* blank lines aside, exactly the five lines of the second block.
C2_BlockIsolation ==
    \A n \in Names, m \in Names, k1 \in Keys, k2 \in Keys :
        (/\ log # <<>>
         /\ Last.op = "remove_block" /\ Last.result = "ok"
         /\ Last.name = n
         /\ ExpectedAlias(n) # ExpectedAlias(m)
         /\ Last.cfg0.data = config_entry(n, k1) \o config_entry(m, k2))
        => NonBlank(Lines(cfg.data)) = ExpectedBlock(m, k2)

\* C3: after remove_block(p, name) every line that was not blank and not
\* part of a block of name is still in the file, unchanged and in its
\* place among the others.  (Blank lines are left out of the statement:
\* the clean-up of section 4.2 may drop them.)
C3_ForeignLinesKept ==
    (log # <<>> /\ Last.op = "remove_block" /\ Last.result = "ok" /\ Last.cfg0.exists)
    => LET ls == Lines(Last.cfg0.data)
           foreign == {j \in 1..Len(ls) :
                          Trim(ls[j]) # <<>> /\ ~OwnedLine(ls, j, Last.name)}
       IN  IsSubseq(Keep(ls, 1, foreign), Lines(cfg.data))

\* C4: append_block leaves the prior content as a prefix of the new one
\* and adds to it an empty line and then the five lines of the block, the
\* last of them ended by a newline; the file exists afterwards.
C4_PureAppend ==
    (log # <<>> /\ Last.op = "append_block" /\ Last.result = "ok")
    => LET before == Last.cfg0.data
           appended == SubSeq(cfg.data, Len(before) + 1, Len(cfg.data))
       IN  /\ cfg.exists
           /\ StartsWith(cfg.data, before)
           /\ Lines(appended) = <<<<>>>> \o ExpectedBlock(Last.name, Last.key)
           /\ EndsWith(appended, <<NL>>)
           /\ ~EndsWith(appended, <<NL, NL>>)

\* C4 witness: a block for the name "A b" was appended to a file that had
\* content without a final newline.
C4_Witness ==
    /\ log # <<>>
    /\ Last.op = "append_block" /\ Last.result = "ok"
    /\ Last.name = NameAB
    /\ Last.cfg0.data # <<>>
    /\ ~EndsWith(Last.cfg0.data, <<NL>>)

\* the accounts appended so far
Appended == [i \in 1..Len(log) |-> log[i].acc]

\* the store file did not exist and every operation so far was an append
OnlyAppends ==
    /\ log # <<>>
    /\ ~Store0.exists
    /\ \A i \in 1..Len(log) : log[i].op = "append" /\ log[i].result = "ok"

FieldsOf(acc) == {acc.name, acc.username, acc.email, acc.ssh_key}

DistinctNames(accs) ==
    \A i \in 1..Len(accs), j \in 1..Len(accs) : i # j => accs[i].name # accs[j].name

NoDelimiter(accs) ==
    \A i \in 1..Len(accs) : \A fld \in FieldsOf(accs[i]) : IndexOf(fld, BAR, 1) = 0

\* no field begins or ends with white space or holds a line break
FieldsTrimmed(accs) ==
    \A i \in 1..Len(accs) : \A fld \in FieldsOf(accs[i]) :
        Trim(fld) = fld /\ IndexOf(fld, NL, 1) = 0

\* C5, as claimed: accounts of distinct names and without the delimiter,
\* appended in turn to a store file that did not exist, are what load
\* returns, field for field and in order.
C5_StoreRoundTrip ==
    (OnlyAppends /\ DistinctNames(Appended) /\ NoDelimiter(Appended))
    => load_accounts_from_path(store) = Appended

\* C5, as amended: the same for accounts none of whose fields begins or
\* ends with white space or holds a line break.
C5_StoreRoundTripTrimmed ==
    (OnlyAppends /\ DistinctNames(Appended) /\ NoDelimiter(Appended)
        /\ FieldsTrimmed(Appended))
    => load_accounts_from_path(store) = Appended

\* C5 witness: two such accounts were appended to a store that was absent.
C5_Witness ==
    /\ OnlyAppends
    /\ Len(log) >= 2
    /\ DistinctNames(Appended)
    /\ NoDelimiter(Appended)
    /\ FieldsTrimmed(Appended)

\* the records with the name n
Named(accs, n) == SelectSeq(accs, LAMBDA acc : acc.name = n)

\* the records with another name
NotNamed(accs, n) == SelectSeq(accs, LAMBDA acc : acc.name # n)

\* C6: after delete(path, X), load returns no record named X and returns
\* the records of the other names as load returned them before, in order.
C6_DeleteThenLoad ==
    (log # <<>> /\ Last.op = "delete" /\ Last.result = "ok")
    => LET after == load_accounts_from_path(store)
       IN  /\ \A i \in 1..Len(after) : after[i].name # Last.name
           /\ after = NotNamed(load_accounts_from_path(Last.store0), Last.name)

\* C6 witness: the store held two records named X and a record of another
\* name when X was deleted.
C6_Witness ==
    /\ log # <<>>
    /\ Last.op = "delete" /\ Last.result = "ok"
    /\ Len(Named(load_accounts_from_path(Last.store0), Last.name)) >= 2
    /\ Len(NotNamed(load_accounts_from_path(Last.store0), Last.name)) >= 1

\* a delete of a name that no record had
DeletedMissingName ==
    /\ log # <<>>
    /\ Last.op = "delete" /\ Last.result = "ok"
    /\ Named(load_accounts_from_path(Last.store0), Last.name) = <<>>

\* every byte of the file belongs to a line of four fields, none of them
\* with white space around it, ended by a newline
CanonicalLine(line) ==
    LET parts == Split(line, BAR)
    IN  Len(parts) = 4 /\ \A i \in 1..4 : Trim(parts[i]) = parts[i]

CanonicalStore(f) ==
    /\ f.exists
    /\ f.data = <<>> \/ EndsWith(f.data, <<NL>>)
    /\ \A i \in 1..Len(Lines(f.data)) : CanonicalLine(Lines(f.data)[i])

\* C7, as claimed: delete of a name that no record has leaves the content
\* of the store file as it was, whatever it was.
C7_DeleteMissingKeepsBytes ==
    DeletedMissingName => store.data = Last.store0.data

\* C7, as amended: delete of a name that no record has leaves what load
\* returns as it was, and leaves the file byte for byte as it was when the
\* file existed and held nothing but well-formed record lines.
C7_DeleteMissingKeepsRecords ==
    DeletedMissingName
    => /\ load_accounts_from_path(store) = load_accounts_from_path(Last.store0)
       /\ CanonicalStore(Last.store0) => store = Last.store0

\* C7 witness: a name that no record had was deleted from a store file of
\* two well-formed record lines.
C7_Witness ==
    /\ DeletedMissingName
    /\ CanonicalStore(Last.store0)
    /\ Len(Lines(Last.store0.data)) >= 2

\* the number of delimiter-separated fields of a line
FieldCount(line) == Len(SelectSeq(line, LAMBDA c : c = BAR)) + 1

\* the record of a line of four fields
RecordOf(line) ==
    LET parts == Split(line, BAR)
    IN  Account(Trim(parts[1]), Trim(parts[2]), Trim(parts[3]), Trim(parts[4]))

\* C8: load returns the records of the lines of exactly four fields, in
\* file order, whatever other lines the file holds.
C8_MalformedLinesSkipped ==
    (log # <<>> /\ Last.op = "load" /\ Last.result = "ok")
    => LET ls == Lines(Last.store0.data)
           good == SelectSeq(ls, LAMBDA l : FieldCount(l) = 4)
       IN  loaded = [i \in 1..Len(good) |-> RecordOf(good[i])]

\* C8 witness: load of a file of one line of three fields and two lines of
\* four returned two records.
C8_Witness ==
    /\ log # <<>>
    /\ Last.op = "load" /\ Last.result = "ok"
    /\ LET ls == Lines(Last.store0.data)
       IN  /\ Len(SelectSeq(ls, LAMBDA l : FieldCount(l) = 3)) = 1
           /\ Len(SelectSeq(ls, LAMBDA l : FieldCount(l) = 4)) = 2
    /\ Len(loaded) = 2

\* C9: no two records of the store have the same name.
C9_UniqueNames == DistinctNames(load_accounts_from_path(store))

\* C10: the SSH config holds at most one block for each profile name.
C10_OneBlockPerProfile ==
    \A n \in Names :
        Cardinality({i \in 1..Len(Lines(cfg.data)) : OpensBlock(Lines(cfg.data), i, n)}) <= 1

\* the file holds no block of the name n
NoBlockOf(f, n) ==
    \A ls \in {Lines(f.data)} : \A i \in 1..Len(ls) : ~OpensBlock(ls, i, n)

\* remove_block returned success on a file that exists and holds no block
\* of the name
RemovedMissingBlock ==
    /\ log # <<>>
    /\ Last.op = "remove_block" /\ Last.result = "ok"
    /\ Last.cfg0.exists
    /\ NoBlockOf(Last.cfg0, Last.name)

\* the lines up to the last one that is not blank
RECURSIVE UpToLastNonBlank(_)
UpToLastNonBlank(ls) ==
    IF ls = <<>> THEN <<>>
    ELSE IF Trim(ls[Len(ls)]) # <<>> THEN ls
    ELSE UpToLastNonBlank(SubSeq(ls, 1, Len(ls) - 1))

\* the content is empty, or ends with a newline that no empty line precedes
TidyEnd(d) == d = <<>> \/ (EndsWith(d, <<NL>>) /\ ~EndsWith(d, <<NL, NL>>))

\* C11, as claimed: remove_block for a name of which the existing config
\* file holds no block returns success and leaves the content of the file
\* as it was.
C11_NoMatchKeepsBytes ==
    RemovedMissingBlock => out.ret = "ok" /\ cfg = Last.cfg0

\* C11, as amended: remove_block for a name of which the existing config
\* file holds no block returns success and leaves the lines up to the last
\* non-blank one as they were; the file is byte for byte as it was when
\* its content was empty or ended with one newline after a line that is
\* not empty.
C11_NoMatchKeepsLines ==
    RemovedMissingBlock
    => /\ out.ret = "ok"
       /\ cfg.exists
       /\ UpToLastNonBlank(Lines(cfg.data)) = UpToLastNonBlank(Lines(Last.cfg0.data))
       /\ TidyEnd(Last.cfg0.data) => cfg = Last.cfg0

\* C11 witness: the file held the block of one profile, as append_block
\* wrote it, when the block of a profile of another alias was removed.
C11_Witness ==
    /\ RemovedMissingBlock
    /\ \E m \in Names, k \in Keys :
        /\ ExpectedAlias(m) # ExpectedAlias(Last.name)
        /\ Last.cfg0.data = config_entry(m, k)
    /\ cfg = Last.cfg0

\* use(identifier) ran and the read of the store file did not fail
Used ==
    /\ log # <<>>
    /\ Last.op = "use"
    /\ "Error reading config file" \notin out.said

\* C12: when the store holds an account whose name is the identifier,
\* use(identifier) selects an account of that name, even if an account
\* stored earlier has the identifier as its username.
C12_NameBeforeUsername ==
    (Used /\ Named(load_accounts_from_path(store), Last.name) # <<>>)
    => Last.acc.name = Last.name

\* the identifier is neither the name nor the username of a stored account
MatchesNone(accounts, id) ==
    \A i \in 1..Len(accounts) : accounts[i].name # id /\ accounts[i].username # id

\* what an invocation ran of the external commands
CommandsRun == SelectSeq(out.did, LAMBDA d : d[1] \in Commands)

\* C13: use(identifier) with an identifier that is neither the name nor
\* the username of a stored account says that the account was not found,
\* lists the stored accounts if there are any, ends normally, runs no
\* external command and leaves the store, the SSH config, the key files,
\* the global git identity and the agent as they were.
C13_UseNotFound ==
    (Used /\ MatchesNone(load_accounts_from_path(Last.store0), Last.name))
    => /\ "not found" \in out.said
       /\ (load_accounts_from_path(Last.store0) # <<>>) <=> ("Available accounts" \in out.said)
       /\ out.ret = "ok"
       /\ CommandsRun = <<>>
       /\ store = Last.store0
       /\ cfg = Last.cfg0
       /\ keyfiles = Last.keyfiles0
       /\ gitcfg = Last.gitcfg0
       /\ agent = Last.agent0

\* C13 witness: the store held two accounts and the git identity was set
\* when use ran with an identifier that matched neither account.
C13_Witness ==
    /\ Used
    /\ MatchesNone(load_accounts_from_path(Last.store0), Last.name)
    /\ Len(load_accounts_from_path(Last.store0)) = 2
    /\ Last.gitcfg0 = OtherGit
    /\ "not found" \in out.said

\* remove(name) ran and found the account in the store
RemovedFound ==
    /\ log # <<>>
    /\ Last.op = "remove"
    /\ Last.acc # NoAccount

\* the steps an invocation made, and how step i ended
StepNames == [i \in 1..Len(out.did) |-> out.did[i][1]]
StepEnded(i) == out.did[i][2]

\* C14: remove(name) of a stored account attempts the deletion from the
\* store, the removal of the SSH block and the deletion of the key files,
\* in that order; a step that fails is reported and the invocation ends
\* normally; each step that succeeds has its effect whatever happened to
\* the steps before it.
C14_RemoveBestEffort ==
    RemovedFound
    => /\ StepNames = <<"delete_account", "remove_ssh_config_entry", "delete_ssh_key_files">>
       /\ out.ret = "ok"
       /\ StepEnded(1) = "err" <=> "Failed to remove account from config" \in out.said
       /\ StepEnded(2) = "err" <=> "Failed to remove SSH config entry" \in out.said
       /\ StepEnded(3) = "err" <=> "Failed to delete SSH key files" \in out.said
       /\ StepEnded(1) = "err" => store = Last.store0
       /\ (StepEnded(1) = "ok" /\ "Error reading config file" \notin out.said)
              => store = delete_account_from_path(Last.name, Last.store0)
       /\ cfg = IF StepEnded(2) = "ok"
                THEN remove_ssh_config_entry(Last.name, Last.cfg0) ELSE Last.cfg0
       /\ StepEnded(3) = "ok"
              => keyfiles = Last.keyfiles0 \ {Last.acc.ssh_key, public_key_path(Last.acc.ssh_key)}

\* C14 witness: the deletion from the store and the removal of the SSH
\* block failed, and the two key files were deleted all the same.
C14_Witness ==
    /\ RemovedFound
    /\ Len(out.did) = 3
    /\ StepEnded(1) = "err"
    /\ StepEnded(2) = "err"
    /\ StepEnded(3) = "ok"
    /\ {Last.acc.ssh_key, public_key_path(Last.acc.ssh_key)} \subseteq Last.keyfiles0
    /\ keyfiles = Last.keyfiles0 \ {Last.acc.ssh_key, public_key_path(Last.acc.ssh_key)}

\* the account is among the records
Holds(accounts, acc) == \E i \in 1..Len(accounts) : accounts[i] = acc

\* the last invocation is op, it read the store file, and the one before
\* it was before with everything in it succeeding
After(before, op) ==
    /\ Len(log) >= 2
    /\ Last.op = op
    /\ "Error reading config file" \notin out.said
    /\ Prev.op = before
    /\ Prev.result = "ok"

\* after add the account is what load and list return
AddedIsListed ==
    /\ (log # <<>> /\ Last.op = "add" /\ Last.result = "ok")
          => Holds(load_accounts_from_path(store), Last.acc)
    /\ After("add", "list")
          => Holds(loaded, Prev.acc) /\ "Saved Git Accounts" \in out.said

\* after add(name, ...) use(name) selects the account that was added
AddedIsUsed ==
    (After("add", "use") /\ Last.name = Prev.name) => Last.acc = Prev.acc

\* after remove(name) load and list return no account of the name, and
\* list says that there are no saved accounts if no other account was stored
RemovedIsGone ==
    /\ (log # <<>> /\ Last.op = "remove" /\ Last.result = "ok")
          => Named(load_accounts_from_path(store), Last.name) = <<>>
    /\ After("remove", "list")
          => /\ Named(loaded, Prev.name) = <<>>
             /\ NotNamed(load_accounts_from_path(Prev.store0), Prev.name) = <<>>
                    => (loaded = <<>> /\ "No saved accounts." \in out.said)

\* C15: after add(name, username, email) the account is returned by load
\* and list and use(name) selects it; after a remove(name) that follows,
\* load and list no longer return it, and list says that there are no
\* saved accounts if the store held no other account.
C15_Lifecycle == AddedIsListed /\ AddedIsUsed /\ RemovedIsGone

\* the invocation of SpecSteps stopped before it returned, and no other
\* invocation wrote to the file
StoppedAlone ==
    /\ proc.pc = "stopped"
    /\ proc.appended = NoAccount

\* C16: when the process stops at any point of a delete on the store or
\* of a remove_block, the file holds the content it had before the call or
\* the content the completed call writes, nothing else.
C16_StopLeavesOldOrNew ==
    /\ (StoppedAlone /\ proc.op = "delete")
          => store \in {Last.store0, delete_account_from_path(proc.name, Last.store0)}
    /\ (StoppedAlone /\ proc.op = "remove_block")
          => cfg \in {Last.cfg0, remove_ssh_config_entry(proc.name, Last.cfg0)}

\* the other invocation appended after the delete had read the store file
\* and before it opened it, and the delete returned
AppendedBehindBack ==
    /\ proc.op = "delete"
    /\ proc.pc = "done"
    /\ proc.at = "loaded"

\* C19: when another invocation appends a record between the read and the
\* open of a delete, both return success and the store file is what the
\* delete makes of the content it read: the appended record is lost
\* unless the file held an equal record before.
C19_LostUpdate ==
    AppendedBehindBack
    => /\ out.ret = "ok"
       /\ store = delete_account_from_path(proc.name, Last.store0)
       /\ ~Holds(load_accounts_from_path(Last.store0), proc.appended)
             => ~Holds(load_accounts_from_path(store), proc.appended)

\* C19 witness: delete("a") and the append of a well-formed account of
\* another name both returned, on a store that held two records, and the
\* appended account is not in the store.
C19_Witness ==
    /\ AppendedBehindBack
    /\ proc.name = NameA
    /\ proc.appended = Account(NameUpperA, <<"v">>, <<"e", "@", "x">>, ssh_key_path(NameUpperA))
    /\ Len(load_accounts_from_path(Last.store0)) = 2
    /\ ~Holds(load_accounts_from_path(Last.store0), proc.appended)
    /\ ~Holds(load_accounts_from_path(store), proc.appended)

\* C17: whatever fails in add, use or remove (an external command that
\* cannot be started or exits with another status than 0, a directory or
\* file that cannot be created, read or written), the invocation runs to
\* its normal end.
C17_NothingAborts ==
    (log # <<>> /\ Last.op \in {"add", "use", "remove"}) => out.ret = "ok"

\* an operation of the store or of the editor in which a read or a write
\* of the file failed
IoFailed ==
    /\ log # <<>>
    /\ Last.op \in {"load", "append", "delete", "append_block", "remove_block"}
    /\ Last.result \in {"read_err", "write_err"}

\* C18: an operation of the store or of the editor in which a read or a
\* write of the file failed returns an error to its caller, and a delete
\* that could not read the store file leaves the file as it was.
C18_IoFailuresSurfaced ==
    IoFailed
    => /\ out.ret = "err"
       /\ (Last.op = "delete" /\ Last.result = "read_err") => store = Last.store0

\* the ordered list that the first k operations make of the empty list:
\* append adds at the end, delete removes every element of the name
RECURSIVE ListAfter(_)
ListAfter(k) ==
    IF k = 0 THEN <<>>
    ELSE IF log[k].op = "append" THEN Append(ListAfter(k - 1), log[k].acc)
    ELSE IF log[k].op = "delete" THEN NotNamed(ListAfter(k - 1), log[k].name)
    ELSE ListAfter(k - 1)

\* the store file did not exist, every operation so far succeeded, and the
\* fields of the appended accounts are well-formed: no delimiter, no line
\* break, no white space around them
WellFormedRun ==
    /\ ~Store0.exists
    /\ \A i \in 1..Len(log) :
        /\ log[i].op \in {"load", "append", "delete"}
        /\ log[i].result = "ok"
    /\ NoDelimiter(Appended)
    /\ FieldsTrimmed(Appended)

\* C20: from a store file that does not exist, after any sequence of
\* successful appends and deletes of well-formed accounts, load returns
\* the ordered list those operations make; load of the file that does not
\* exist returns the empty list, without error and without creating it.
C20_StoreIsOrderedList ==
    WellFormedRun
    => /\ load_accounts_from_path(store) = ListAfter(Len(log))
       /\ (log # <<>> /\ Last.op = "load")
             => /\ loaded = ListAfter(Len(log))
                /\ out.ret = "ok"
                /\ store = Last.store0
       /\ (\A i \in 1..Len(log) : log[i].op = "load") => ~store.exists

\* C20 witness: two accounts were appended and the first was deleted; the
\* list holds the second.
C20_Witness ==
    /\ WellFormedRun
    /\ Len(log) = 3
    /\ log[1].op = "append"
    /\ log[2].op = "append"
    /\ log[3].op = "delete"
    /\ log[3].name = log[1].name
    /\ ListAfter(3) = <<log[2].acc>>

\* remove_block returned success on a file that held a block of the name
RemovedBlock ==
    /\ log # <<>>
    /\ Last.op = "remove_block" /\ Last.result = "ok"
    /\ Last.cfg0.exists
    /\ ~NoBlockOf(Last.cfg0, Last.name)

\* the length of the run of blank lines that ends at line i
RECURSIVE BlankRunAt(_, _)
BlankRunAt(ls, i) ==
    IF i = 0 THEN 0
    ELSE IF Trim(ls[i]) # <<>> THEN 0
    ELSE 1 + BlankRunAt(ls, i - 1)

\* the length of the longest run of blank lines
LongestBlankRun(ls) ==
    IF ls = <<>> THEN 0
    ELSE LET runs == {BlankRunAt(ls, i) : i \in 1..Len(ls)}
         IN  CHOOSE r \in runs : \A q \in runs : q <= r

\* C21: after remove_block has removed a block, no run of blank lines is
\* longer than one line unless the file held a run as long before, in the
\* middle of the file as well as at its end, and content that is nothing
\* but white space is written as the empty file.
C21_BlankLinesCollapsed ==
    RemovedBlock
    => \A before \in {Lines(Last.cfg0.data)}, after \in {Lines(cfg.data)} :
        /\ LongestBlankRun(after) <= 1 \/ LongestBlankRun(after) <= LongestBlankRun(before)
        /\ Trim(cfg.data) = <<>> => cfg.data = <<>>

\* remove_block returned success on a file that exists
RemovedFrom ==
    /\ log # <<>>
    /\ Last.op = "remove_block" /\ Last.result = "ok"
    /\ Last.cfg0.exists

\* line i opens a block of the profile with nothing around the two lines:
\* the comment as it is, then a line that begins with the Host line
OpensBlockExactly(ls, i, n) ==
    /\ i + 1 <= Len(ls)
    /\ ls[i] = <<HASH, SP>> \o n \o <<SP, "GitHub", SP, "Account">>
    /\ StartsWith(ls[i + 1], <<"Host", SP, "github-">> \o ExpectedAlias(n))

\* the lines where a block of the profile opens, white space around the
\* two lines aside
Openings(ls, n) == {i \in 1..Len(ls) : OpensBlock(ls, i, n)}

RemovedClean ==
    /\ log # <<>>
    /\ Last.op = "remove" /\ Last.result = "ok"
    /\ "Error reading config file" \notin out.said

\* the file holds the five lines of the block of the account, one after
\* the other
HasBlock(f, acc) ==
    /\ f.exists
    /\ \A ls \in {Lines(f.data)} :
        \E i \in 1..Len(ls) :
            /\ i + 4 <= Len(ls)
            /\ SubSeq(ls, i, i + 4) = ExpectedBlock(acc.name, acc.ssh_key)

\* the state still has of the account what the state before had: its
\* record, its block, its two key files
Intact(acc, store_before, cfg_before, keyfiles_before) ==
    /\ Holds(load_accounts_from_path(store_before), acc)
          => Holds(load_accounts_from_path(store), acc)
    /\ HasBlock(cfg_before, acc) => HasBlock(cfg, acc)
    /\ acc.ssh_key \in keyfiles_before => acc.ssh_key \in keyfiles
    /\ public_key_path(acc.ssh_key) \in keyfiles_before
          => public_key_path(acc.ssh_key) \in keyfiles

\* C23: remove(A) leaves every stored account B of another name with its
\* record in the store, its block in the SSH config and its key files, so
\* that use(B) finds the key file afterwards.
C23_RemoveSparesOthers ==
    RemovedClean
    => \A accounts \in {load_accounts_from_path(Last.store0)} :
       \A i \in 1..Len(accounts) :
          accounts[i].name # Last.name
          => Intact(accounts[i], Last.store0, Last.cfg0, Last.keyfiles0)

\* C24: after remove_block(p, name) returned success, a second call with
\* the same name leaves the file as the first call left it, and the file
\* holds no comment line of the name followed by its Host line.
C24_RemoveIdempotent ==
    RemovedFrom
    => /\ remove_ssh_config_entry(Last.name, cfg) = cfg
       /\ NoBlockOf(cfg, Last.name)

\* use(identifier) found an account
UsedFound ==
    /\ log # <<>>
    /\ Last.op = "use"
    /\ Last.acc # NoAccount

\* how the command ended in this invocation, "none" if it did not run
Ended(command) ==
    IF \E i \in 1..Len(out.did) : out.did[i][1] = command
    THEN out.did[CHOOSE i \in 1..Len(out.did) : out.did[i][1] = command][2]
    ELSE "none"

\* C25: use of a found account runs git config for user.name, then for
\* user.email, and only after them the agent and the registration of the
\* key; it says "Switched to Git account" exactly when ssh-add ran and
\* succeeded; and whether or not the registration succeeded, the global
\* identity holds the username and the email of the account wherever the
\* git config command succeeded: nothing is put back.
C25_UseOrderedNoRollback ==
    UsedFound
    => /\ IsSubseq(StepNames, <<"git config user.name", "git config user.email",
                                "ssh-agent", "ssh-add", "update_git_remote">>)
       /\ Last.result \in {"switched", "not_switched"}
             => /\ SubSeq(StepNames, 1, 3)
                     = <<"git config user.name", "git config user.email", "ssh-agent">>
                /\ Ended("ssh-add") \in {"ok", "fail"} <=> Last.acc.ssh_key \in keyfiles
       /\ "Switched to Git account" \in out.said <=> Ended("ssh-add") = "ok"
       /\ "Switched to Git account" \in out.said <=> Last.result = "switched"
       /\ Last.result = "not_switched" <=> "Failed to add SSH key to agent" \in out.said
       /\ Last.result = "not_switched" => agent = Last.agent0
       /\ gitcfg.user = IF Ended("git config user.name") = "ok"
                         THEN Last.acc.username ELSE Last.gitcfg0.user
       /\ gitcfg.email = IF Ended("git config user.email") = "ok"
                          THEN Last.acc.email ELSE Last.gitcfg0.email

\* C25 witness: the identity was someone else's and the account was stored
\* without a key file; both git config commands succeeded, ssh-add was not
\* run, use said that the key was not added, and the identity is the
\* account's.
C25_Witness ==
    /\ UsedFound
    /\ Last.gitcfg0 = OtherGit
    /\ Last.acc.ssh_key \notin keyfiles
    /\ Ended("git config user.name") = "ok"
    /\ Ended("git config user.email") = "ok"
    /\ Ended("ssh-add") = "none"
    /\ "SSH key not found" \in out.said
    /\ "Failed to add SSH key to agent" \in out.said
    /\ "Switched to Git account" \notin out.said
    /\ gitcfg = [user |-> Last.acc.username, email |-> Last.acc.email]
    /\ gitcfg # Last.gitcfg0

====
